---- MODULE Spec2Model ----
(***************************************************************************)
(* Model of the hybrid chunked-ASR + single-pass forced-alignment service  *)
(* (services/asr-nemo/app.py).                                             *)
(*                                                                         *)
(* Time is counted in ticks: one tick is 1/(sr * TicksPerSample) seconds,  *)
(* so a sample index n is the instant n * TicksPerSample, and the float    *)
(* arithmetic of the segmenter is exact rational arithmetic on ticks.      *)
(***************************************************************************)
EXTENDS Integers, Sequences, FiniteSets, TLC

\* ------------------------------------------------------------------ bounds
MaxSamples == 7
TicksPerSample == 2
MaxChunkTicks == 8
MaxIntervals == 3
MaxChunks == 2
MaxLines == 2
MaxThreads == 2
MaxTimeoutSec == 62
TimeDigits == 4

VARIABLES
    \* _prepare_chunks: inputs
    total_samples, min_chunk_sec, max_chunk_sec, split_raises, non_silent,
    \* _prepare_chunks: locals
    seg_pc, split_called, silence_idx, segments, cur_start, cur_start_sec, s, out

segIn == <<total_samples, min_chunk_sec, max_chunk_sec, split_raises, non_silent>>

segVars == <<segIn, seg_pc, split_called, silence_idx, segments, cur_start,
             cur_start_sec, s, out>>

VARIABLES
    \* the request and the environment of one /align job
    req, ASR_PRECHUNK, cuda, NFA_MODEL_NAME, nfa_available, fs,
    \* process globals
    asr_model,
    \* align / _transcribe_chunked / _run_nfa: position and locals
    job_pc, chunks, idx, texts, transcript, manifest, nfa_model, response,
    \* history of the external calls made by the job
    calls, hyp_of, released, nfa_calls, steps

jobIn == <<req, ASR_PRECHUNK, cuda, NFA_MODEL_NAME, nfa_available>>

jobVars == <<jobIn, fs, asr_model, job_pc, chunks, idx, texts, transcript, manifest,
             nfa_model, response, calls, hyp_of, released, nfa_calls, steps>>

VARIABLES
    \* _parse_ctm: the file, the position in it, the tokens so far
    ctm_exists, ctm_lines, ctm_pc, ctm_i, toks

ctmVars == <<ctm_exists, ctm_lines, ctm_pc, ctm_i, toks>>

VARIABLES
    \* the worker threads: position and request of each, _asr_model, the local
    \* asr of _transcribe_chunked, and the model that transcribed the request
    srv_pc, srv_req, singleton, asr, transcribed,
    \* the ASR_BEAM_SIZE environment variable (0: unset), the decoding configuration of the
    \* shared model, the number of from_pretrained calls, and the beam width in
    \* effect when each request was transcribed (0: not transcribed yet)
    beam_env, decoding, loads, beam_used

srvVars == <<srv_pc, srv_req, singleton, asr, transcribed, beam_env, decoding, loads,
             beam_used>>

VARIABLES
    \* _run_nfa_inproc / _run_nfa_cli: environment, arguments, the selected model's
    \* own configuration, and the configuration each path builds
    nfa_env, nfa_in, model_cfg, cfg_pc, inproc_cfg, cli_cfg

cfgVars == <<nfa_env, nfa_in, model_cfg, cfg_pc, inproc_cfg, cli_cfg>>

VARIABLES
    \* /v1/align-chunk: the request, the position, the timeout_sec argument of
    \* run_aeneas_alignment, the seconds the subprocess has run, the response
    ae_req, ae_pc, ae_timeout_sec, ae_elapsed, ae_response

aeVars == <<ae_req, ae_pc, ae_timeout_sec, ae_elapsed, ae_response>>

vars == <<segVars, jobVars, ctmVars, srvVars, cfgVars, aeVars>>

\* what the steps of one part leave alone
notSeg == <<jobVars, ctmVars, srvVars, cfgVars, aeVars>>

notJob == <<segVars, ctmVars, srvVars, cfgVars, aeVars>>

notCtm == <<segVars, jobVars, srvVars, cfgVars, aeVars>>

notSrv == <<segVars, jobVars, ctmVars, cfgVars, aeVars>>

notCfg == <<segVars, jobVars, ctmVars, srvVars, aeVars>>

notAe == <<segVars, jobVars, ctmVars, srvVars, cfgVars>>

\* ------------------------------------------------------- numeric helpers
Min2(a, b) == IF a <= b THEN a ELSE b

AbsVal(x) == IF x < 0 THEN -x ELSE x

\* int(x) of a non-negative quotient n/d: truncation
IntOf(n, d) == n \div d

\* Python's round() of a non-negative quotient n/d: half goes to the even integer
PyRound(n, d) ==
    LET q == n \div d
        r == n % d
    IN  IF 2 * r < d THEN q
        ELSE IF 2 * r > d THEN q + 1
        ELSE IF q % 2 = 0 THEN q ELSE q + 1

\* s / sr of a sample index, in ticks
SecOf(n) == n * TicksPerSample

\* ------------------------------------------------------------ segmenter
\* what librosa.effects.split can return: increasing [start, end) sample intervals
RECURSIVE IntervalSeqs(_, _, _)
IntervalSeqs(lo, hi, k) ==
    IF k = 0 THEN {<<>>}
    ELSE {<<>>} \cup
         UNION { UNION { { <<<<a, b>>>> \o r : r \in IntervalSeqs(b, hi, k - 1) }
                         : b \in (a + 1)..hi }
                 : a \in lo..(hi - 1) }

\* candidate silence points between non-silent intervals
SilencePts(ns, total) ==
    {0, total} \cup
    { IntOf(ns[i][2] + ns[i + 1][1], 2) :
        i \in { j \in 1..(Len(ns) - 1) : ns[j + 1][1] > ns[j][2] } }

\* min(candidates, key=|s - target|) over the ascending list: the first minimum.
\* target2 is twice the target, the target being a half tick when min + max is odd.
ClosestLast(candidates, target2) ==
    CHOOSE c \in candidates : \A d \in candidates : d <= c

Closest(candidates, target2) ==
    CHOOSE c \in candidates :
        \A d \in candidates :
            \/ AbsVal(2 * c - target2) < AbsVal(2 * d - target2)
            \/ (AbsVal(2 * c - target2) = AbsVal(2 * d - target2) /\ c <= d)

WriteSegment(a, b) == [start |-> a, end |-> b]

RECURSIVE WriteAll(_)
WriteAll(segs) ==
    IF segs = <<>> THEN <<>>
    ELSE <<WriteSegment(Head(segs)[1], Head(segs)[2])>> \o WriteAll(Tail(segs))

duration_sec == SecOf(total_samples)

\* a 185-second recording at one sample per second, minimum 60 s, maximum 90 s,
\* its one silence between the samples 80 and 84
LongRecording ==
    /\ total_samples = 185
    /\ max_chunk_sec = SecOf(90)
    /\ min_chunk_sec = SecOf(60)
    /\ split_raises = FALSE
    /\ non_silent = <<<<0, 80>>, <<84, 185>>>>

SegInit ==
    /\ \/ /\ total_samples \in 0..MaxSamples
          /\ max_chunk_sec \in 0..MaxChunkTicks
          /\ min_chunk_sec \in 0..max_chunk_sec
          /\ split_raises \in BOOLEAN
          /\ non_silent \in IF split_raises THEN {<<>>}
                            ELSE IntervalSeqs(0, total_samples, MaxIntervals)
       \/ LongRecording
    /\ seg_pc = "start"
    /\ split_called = FALSE
    /\ silence_idx = {}
    /\ segments = <<>>
    /\ cur_start = 0
    /\ cur_start_sec = 0
    /\ s = 0
    /\ out = <<>>

\* line 177: the whole input fits one chunk
FitsOneChunkStrict == duration_sec < max_chunk_sec

FitsOneChunk == duration_sec <= max_chunk_sec

\* lines 162-209: load, the empty and single-chunk returns, silence detection
Prepare ==
    /\ seg_pc = "start"
    /\ UNCHANGED notSeg
    /\ UNCHANGED <<segIn, segments, cur_start, cur_start_sec, s>>
    /\ IF total_samples = 0
       THEN /\ out' = <<>>
            /\ seg_pc' = "done"
            /\ UNCHANGED <<silence_idx, split_called>>
       ELSE IF FitsOneChunk
       THEN /\ out' = <<WriteSegment(0, total_samples)>>
            /\ seg_pc' = "done"
            /\ UNCHANGED <<silence_idx, split_called>>
       ELSE IF split_raises
       THEN /\ split_called' = TRUE
            /\ seg_pc' = "fixed"
            /\ UNCHANGED <<out, silence_idx>>
       ELSE /\ split_called' = TRUE
            /\ silence_idx' = SilencePts(non_silent, total_samples)
            /\ seg_pc' = "walk"
            /\ UNCHANGED out

\* lines 185-192: one iteration of the fixed-window fallback; a loop that ends makes
\* at most total_samples chunks, the guard on Len(out) stops only the endless one
FixedStepLen == IntOf(max_chunk_sec, TicksPerSample)

FixedWindow ==
    /\ seg_pc = "fixed"
    /\ UNCHANGED notSeg
    /\ s < total_samples
    /\ Len(out) <= total_samples
    /\ LET e == Min2(total_samples, s + FixedStepLen)
       IN  /\ out' = Append(out, WriteSegment(s, e))
           /\ s' = e
    /\ UNCHANGED <<segIn, seg_pc, split_called, silence_idx, segments, cur_start,
                   cur_start_sec>>

\* line 193
FixedReturn ==
    /\ seg_pc = "fixed"
    /\ UNCHANGED notSeg
    /\ s >= total_samples
    /\ seg_pc' = "done"
    /\ UNCHANGED <<segIn, split_called, silence_idx, segments, cur_start,
                   cur_start_sec, s, out>>

\* line 219: a silence point inside the allowed window
InWindowNoMin(sec, lo, hi) == sec <= hi

InWindow(sec, lo, hi) == lo <= sec /\ sec <= hi

\* line 214: the final chunk runs to the end of the audio
LastSegmentShort(cur) == <<cur, total_samples - 1>>

LastSegment(cur) == <<cur, total_samples>>

\* lines 217-230: the cut of one iteration, <<chosen, chosen_sec>>
ForcedAdvance(cur) == Min2(total_samples, cur + IntOf(max_chunk_sec, TicksPerSample))

ChooseCut(cur, cur_sec) ==
    LET min_end_sec == cur_sec + min_chunk_sec
        max_end_sec == Min2(duration_sec, cur_sec + max_chunk_sec)
        candidates == { SecOf(p) : p \in { q \in silence_idx :
                            InWindow(SecOf(q), min_end_sec, max_end_sec) } }
        target2 == Min2(2 * duration_sec, 2 * cur_sec + min_chunk_sec + max_chunk_sec)
        chosen_sec == IF candidates # {} THEN Closest(candidates, target2)
                      ELSE max_end_sec
        chosen == PyRound(chosen_sec, TicksPerSample)
    IN  IF chosen <= cur
        THEN <<ForcedAdvance(cur), SecOf(ForcedAdvance(cur))>>
        ELSE <<chosen, chosen_sec>>

\* lines 211-234 (and 236-239 on the break): one iteration of the silence-aware walk.
\* An iteration that does not advance leaves cur_start_sec = cur_start / sr, from
\* where the next one either advances or repeats for ever: a walk that ends makes at
\* most 2 * total_samples + 1 segments, and the guard stops only the endless ones.
Walk ==
    /\ seg_pc = "walk"
    /\ UNCHANGED notSeg
    /\ cur_start < total_samples
    /\ Len(segments) <= 2 * total_samples + 1
    /\ IF duration_sec - cur_start_sec <= max_chunk_sec
       THEN /\ segments' = Append(segments, LastSegment(cur_start))
            /\ out' = WriteAll(segments')
            /\ seg_pc' = "done"
            /\ UNCHANGED <<cur_start, cur_start_sec>>
       ELSE LET cut == ChooseCut(cur_start, cur_start_sec)
            IN  /\ segments' = Append(segments, <<cur_start, cut[1]>>)
                /\ cur_start' = cut[1]
                /\ cur_start_sec' = cut[2]
                /\ UNCHANGED <<out, seg_pc>>
    /\ UNCHANGED <<segIn, split_called, silence_idx, s>>

\* lines 211, 236-239: the loop condition fails, the segments are written
WalkReturn ==
    /\ seg_pc = "walk"
    /\ UNCHANGED notSeg
    /\ cur_start >= total_samples
    /\ out' = WriteAll(segments)
    /\ seg_pc' = "done"
    /\ UNCHANGED <<segIn, split_called, silence_idx, segments, cur_start,
                   cur_start_sec, s>>

SegNext == Prepare \/ FixedWindow \/ FixedReturn \/ Walk \/ WalkReturn

\* --------------------------------------------------------- configuration
ASR_BATCH == 8
ASR_FALLBACK_BATCH == 1

None == "None"
\* line 46: the NFA_MODEL environment variable, or its default
DefaultModels == {"stt_en_fastconformer_ctc_large", "nvidia/parakeet-tdt-0.6b-v3", ""}
NFA_MODEL_FALLBACKS == <<"stt_en_conformer_ctc_large", "stt_en_fastconformer_ctc_small">>

\* ------------------------------------------------------------------ paths
\* A path is [kind, abs, id]: the caller's recording (kind "audio", given relative or
\* absolute) or a NamedTemporaryFile of the segmenter (kind "tmp", id = chunk index).
AudioPaths == { [kind |-> "audio", abs |-> a, id |-> 0] : a \in BOOLEAN }

\* Path(p).expanduser().resolve()
AbsolutePath(p) == [p EXCEPT !.abs = TRUE]

TmpPath(i) == [kind |-> "tmp", abs |-> TRUE, id |-> i]

IsTmp(p) == p.kind = "tmp"

\* ------------------------------------------------------------------- text
\* A text is a sequence of characters; a hypothesis is [none, text], none standing
\* for hyp.text = None.
Blank == " "
Terminal == {".", "!", "?"}

Hyps == { [none |-> TRUE, text |-> <<>>],
          [none |-> FALSE, text |-> <<>>],
          [none |-> FALSE, text |-> <<" ">>],
          [none |-> FALSE, text |-> <<" ", "a">>],
          [none |-> FALSE, text |-> <<"b", ".", " ">>],
          [none |-> FALSE, text |-> <<"c", "?">>] }

RECURSIVE LStrip(_)
LStrip(t) == IF t # <<>> /\ Head(t) = Blank THEN LStrip(Tail(t)) ELSE t

RECURSIVE RStrip(_)
RStrip(t) ==
    IF t # <<>> /\ t[Len(t)] = Blank THEN RStrip(SubSeq(t, 1, Len(t) - 1)) ELSE t

\* (hyp.text or "").strip()
TextOf(hyp) == IF hyp.none THEN <<>> ELSE RStrip(LStrip(hyp.text))

\* sep.join(parts)
RECURSIVE Join(_, _)
Join(sep, parts) ==
    IF parts = <<>> THEN <<>>
    ELSE IF Len(parts) = 1 THEN parts[1]
    ELSE parts[1] \o sep \o Join(sep, Tail(parts))

IsNonEmpty(t) == t # <<>>

\* lines 402-405
StitchNoDot(ts) == Join(<<".", " ">>, SelectSeq(ts, IsNonEmpty))

Stitch(ts) ==
    LET full_text == Join(<<".", " ">>, SelectSeq(ts, IsNonEmpty))
    IN  IF full_text # <<>> /\ full_text[Len(full_text)] \notin Terminal
        THEN full_text \o <<".">>
        ELSE full_text

\* line 388
AddTextFront(ts, t) == <<t>> \o ts

AddText(ts, t) == Append(ts, t)

\* ------------------------------------------------------ model selection
\* the names of the model that contain "ctc"
CtcNames == {"stt_en_fastconformer_ctc_large", "stt_en_conformer_ctc_large",
             "stt_en_fastconformer_ctc_small", "my_ctc_model"}

\* line 495: "ctc" in nm.lower()
HasCtcAny(nm) == TRUE

HasCtc(nm) == nm \in CtcNames

\* truth value of an optional string
Truthy(x) == x \notin {None, ""}

\* lines 472-480: the name itself, nothing is looked up
TryCtcModel(name) == name

RequestModels == {None, "my_ctc_model", "parakeet_tdt"}

RECURSIVE FirstCtc(_)
FirstCtc(cands) ==
    IF cands = <<>> THEN None
    ELSE IF Truthy(Head(cands)) /\ HasCtc(Head(cands)) /\ Truthy(TryCtcModel(Head(cands)))
         THEN Head(cands)
    ELSE FirstCtc(Tail(cands))

\* lines 482-505
SelectDefaultFirst(request_name) ==
    LET candidates == <<NFA_MODEL_NAME>>
                      \o (IF Truthy(request_name) THEN <<request_name>> ELSE <<>>)
                      \o NFA_MODEL_FALLBACKS
    IN  IF FirstCtc(candidates) # None THEN FirstCtc(candidates) ELSE candidates[1]

SelectNfaModel(request_name) ==
    LET candidates == (IF Truthy(request_name) THEN <<request_name>> ELSE <<>>)
                      \o <<NFA_MODEL_NAME>> \o NFA_MODEL_FALLBACKS
    IN  IF FirstCtc(candidates) # None THEN FirstCtc(candidates) ELSE candidates[1]

\* the pretrained models the aligner can obtain (download or cache): all of them,
\* or the last fallback only
Obtainable == {CtcNames, {"stt_en_fastconformer_ctc_small"}}

\* ---------------------------------------------------------------- the job
NoResponse == [status |-> 0]

Requests == [audio_path : AudioPaths, nfa_model : RequestModels, save_ass : BOOLEAN]

JobInit ==
    /\ req \in Requests
    /\ ASR_PRECHUNK \in BOOLEAN
    /\ cuda \in BOOLEAN
    /\ NFA_MODEL_NAME \in DefaultModels
    /\ nfa_available \in Obtainable
    /\ fs \in {{}, {AbsolutePath(req.audio_path)}}
    /\ asr_model = [loaded |-> FALSE, device |-> None]
    /\ job_pc = "align"
    /\ chunks = <<>>
    /\ idx = 0
    /\ texts = <<>>
    /\ transcript = <<>>
    /\ manifest = <<>>
    /\ nfa_model = None
    /\ response = NoResponse
    /\ calls = <<>>
    /\ hyp_of = <<>>
    /\ released = {}
    /\ nfa_calls = <<>>
    /\ steps = <<>>

\* lines 691-693: any exception of a stage ends the job with HTTP 500
Fail500 ==
    /\ response' = [status |-> 500]
    /\ job_pc' = "done"

\* line 666: Path(audio_path).exists()
AudioExistsAlways == TRUE

AudioExists == AbsolutePath(req.audio_path) \in fs

\* lines 665-667: the audio must exist
AlignEnter ==
    /\ job_pc = "align"
    /\ UNCHANGED notJob
    /\ IF ~AudioExists
       THEN /\ response' = [status |-> 404]
            /\ job_pc' = "done"
       ELSE /\ job_pc' = "load"
            /\ UNCHANGED response
    /\ UNCHANGED <<jobIn, fs, asr_model, chunks, idx, texts, transcript, manifest,
                   nfa_model, calls, hyp_of, released, nfa_calls, steps>>

\* lines 320-321, 241-313: the singleton is loaded on the default device, or reused;
\* from_pretrained may raise
LoadAsrModel ==
    /\ job_pc = "load"
    /\ UNCHANGED notJob
    /\ \E ok \in BOOLEAN :
         IF asr_model.loaded \/ ok
         THEN /\ asr_model' = IF asr_model.loaded THEN asr_model
                              ELSE [loaded |-> TRUE,
                                    device |-> IF cuda THEN "cuda" ELSE "cpu"]
              /\ job_pc' = "prepare"
              /\ UNCHANGED response
         ELSE /\ Fail500
              /\ UNCHANGED asr_model
    /\ steps' = steps \o <<"_hf_auth", "_load_asr_model">>
    /\ UNCHANGED <<jobIn, fs, chunks, idx, texts, transcript, manifest, nfa_model,
                   calls, hyp_of, released, nfa_calls>>

\* lines 171-175, 236-239: the chunk files the segmenter leaves on disk
ChunkList(n) == [i \in 1..n |-> [path |-> TmpPath(i - 1)]]

\* lines 357-364: the chunks of the first pass; with none the transcript is ""
PrepareChunks ==
    /\ job_pc = "prepare"
    /\ UNCHANGED notJob
    /\ \/ \E n \in 0..MaxChunks :
            /\ ASR_PRECHUNK
            /\ chunks' = ChunkList(n)
            /\ fs' = fs \cup { TmpPath(i - 1) : i \in 1..n }
            /\ idx' = 1
            /\ IF n = 0
               THEN /\ transcript' = <<>>
                    /\ job_pc' = "nfa"
               ELSE /\ job_pc' = "call"
                    /\ UNCHANGED transcript
            /\ UNCHANGED response
       \/ /\ ASR_PRECHUNK
          /\ Fail500
          /\ UNCHANGED <<chunks, fs, idx, transcript>>
       \/ /\ ~ASR_PRECHUNK
          /\ chunks' = <<[path |-> AbsolutePath(req.audio_path)]>>
          /\ idx' = 1
          /\ job_pc' = "call"
          /\ UNCHANGED <<fs, transcript, response>>
    /\ steps' = IF ASR_PRECHUNK THEN Append(steps, "_prepare_chunks") ELSE steps
    /\ UNCHANGED <<jobIn, asr_model, texts, manifest, nfa_model, calls, hyp_of,
                   released, nfa_calls>>

\* what asr.transcribe can do: return a hypothesis, exhaust accelerator memory
\* (on the accelerator only), or raise something else
Outcomes == {"ok", "error"} \cup (IF asr_model.device = "cuda" THEN {"oom"} ELSE {})

\* line 371: the keyword arguments of asr.transcribe carry no time bound
TranscribeTimeout == None

Call(attempt, batch_size, result) ==
    [chunk |-> idx, attempt |-> attempt, batch_size |-> batch_size,
     device |-> asr_model.device, timeout |-> TranscribeTimeout, result |-> result]

\* lines 390-395: the chunk's temporary file is removed when pre-chunking is on
RemoveChunkAlways(files, path) == files \ {path}

RemoveChunk(files, path) == IF ASR_PRECHUNK THEN files \ {path} ELSE files

\* lines 384-405: the hypothesis is kept, the chunk cleaned up, the next chunk or
\* the stitched transcript follows
ChunkDone(hyp) ==
    /\ texts' = AddText(texts, TextOf(hyp))
    /\ hyp_of' = Append(hyp_of, hyp)
    /\ fs' = RemoveChunk(fs, chunks[idx].path)
    /\ released' = released \cup {idx}
    /\ idx' = idx + 1
    /\ IF idx = Len(chunks)
       THEN /\ transcript' = Stitch(texts')
            /\ job_pc' = "nfa"
       ELSE /\ job_pc' = "call"
            /\ UNCHANGED transcript
    /\ UNCHANGED response

\* lines 371-379: the first call on a chunk, batch size ASR_BATCH
FirstCall ==
    /\ job_pc = "call"
    /\ UNCHANGED notJob
    /\ \E result \in Outcomes :
         /\ calls' = Append(calls, Call(1, ASR_BATCH, result))
         /\ CASE result = "ok" -> \E hyp \in Hyps : ChunkDone(hyp)
              [] result = "oom" ->
                    /\ job_pc' = "retry"
                    /\ UNCHANGED <<texts, hyp_of, fs, released, idx, transcript, response>>
              [] OTHER ->
                    /\ Fail500
                    /\ UNCHANGED <<texts, hyp_of, fs, released, idx, transcript>>
    /\ UNCHANGED <<jobIn, asr_model, chunks, manifest, nfa_model, nfa_calls, steps>>

\* line 381
RetryBatchSame == ASR_BATCH

RetryBatch == ASR_FALLBACK_BATCH

\* lines 380-382: the one retry, outside any try block
RetryCall ==
    /\ job_pc = "retry"
    /\ UNCHANGED notJob
    /\ \E result \in Outcomes :
         /\ calls' = Append(calls, Call(2, RetryBatch, result))
         /\ IF result = "ok"
            THEN \E hyp \in Hyps : ChunkDone(hyp)
            ELSE /\ Fail500
                 /\ UNCHANGED <<texts, hyp_of, fs, released, idx, transcript>>
    /\ UNCHANGED <<jobIn, asr_model, chunks, manifest, nfa_model, nfa_calls, steps>>

\* lines 507-511
WriteManifestPerChunk(audio_path, text) ==
    [i \in 1..Len(chunks) |-> [audio_filepath |-> chunks[i].path, text |-> texts[i]]]

WriteManifest(audio_path, text) ==
    <<[audio_filepath |-> AbsolutePath(audio_path), text |-> text]>>

\* lines 598-603: scratch directory, manifest, model choice
NfaSetup ==
    /\ job_pc = "nfa"
    /\ UNCHANGED notJob
    /\ manifest' = WriteManifest(AbsolutePath(req.audio_path), transcript)
    /\ nfa_model' = SelectNfaModel(req.nfa_model)
    /\ job_pc' = "inproc"
    /\ steps' = Append(steps, "_run_nfa")
    /\ UNCHANGED <<jobIn, fs, asr_model, chunks, idx, texts, transcript, response,
                   calls, hyp_of, released, nfa_calls>>

\* line 544: nfa_main(cfg) is called with the configuration alone
NfaMainTimeout == None

\* line 586: subprocess.run(cmd, env=env, stdout=PIPE, stderr=STDOUT, text=True); its timeout
\* parameter keeps the default
SubprocessTimeout == None

\* the arguments both invocation paths are given (lines 605, 608)
NfaArgs == [manifest_path |-> "manifest.json", out_dir |-> "out",
            nfa_model |-> nfa_model, save_ass |-> req.save_ass]

\* lines 681-688
\* lines 630-631, 678: the word tokens read from the words CTM, none when the
\* aligner left no file at the expected path
CtmWords == <<[w |-> <<"a">>, t |-> 0, d |-> 0]>>

Respond(written) ==
    [status |-> 200, transcript |-> transcript,
     words |-> IF written THEN CtmWords ELSE <<>>,
     nfa_model |-> IF Truthy(req.nfa_model) THEN req.nfa_model ELSE NFA_MODEL_NAME]

\* what nfa_main(cfg) can do: return, or raise (the import of align.py, the run);
\* it cannot return when the pretrained model cannot be obtained
NfaResults ==
    {"ImportError", "RuntimeError"} \cup
    (IF nfa_model \in nfa_available THEN {"ok"} ELSE {})

\* line 606: except Exception
CaughtImportOnly(exc) == exc = "ImportError"

Caught(exc) == exc \in {"ImportError", "RuntimeError"}

\* lines 604-608: where the job goes after the in-process call
AfterInprocAlwaysCli(result) == "cli"

AfterInproc(result) ==
    IF result = "ok" THEN "respond"
    ELSE IF Caught(result) THEN "cli"
    ELSE "raise"

\* lines 604-606 (and 611-688 when the call returns): the in-process call
NfaInproc ==
    /\ job_pc = "inproc"
    /\ UNCHANGED notJob
    /\ \E result \in NfaResults, written \in BOOLEAN :
         /\ written => result = "ok"
         /\ nfa_calls' = Append(nfa_calls, [via |-> "inproc", args |-> NfaArgs,
                                            timeout |-> NfaMainTimeout,
                                            result |-> result,
                                            wrote_ctm |-> written])
         /\ IF AfterInproc(result) = "respond"
            THEN /\ response' = Respond(written)
                 /\ job_pc' = "done"
            ELSE IF AfterInproc(result) = "cli"
            THEN /\ job_pc' = "cli"
                 /\ UNCHANGED response
            ELSE Fail500
    /\ UNCHANGED <<jobIn, fs, asr_model, chunks, idx, texts, transcript, manifest,
                   nfa_model, calls, hyp_of, released, steps>>

\* lines 607-608 (and 611-688 when the call returns): the subprocess call
CliResults ==
    {"RuntimeError"} \cup (IF nfa_model \in nfa_available THEN {"ok"} ELSE {})

NfaCli ==
    /\ job_pc = "cli"
    /\ UNCHANGED notJob
    /\ \E result \in CliResults, written \in BOOLEAN :
         /\ written => result = "ok"
         /\ nfa_calls' = Append(nfa_calls, [via |-> "cli", args |-> NfaArgs,
                                            timeout |-> SubprocessTimeout,
                                            result |-> result,
                                            wrote_ctm |-> written])
         /\ IF result = "ok"
            THEN /\ response' = Respond(written)
                 /\ job_pc' = "done"
            ELSE Fail500
    /\ UNCHANGED <<jobIn, fs, asr_model, chunks, idx, texts, transcript, manifest,
                   nfa_model, calls, hyp_of, released, steps>>

Next ==
    \/ AlignEnter \/ LoadAsrModel \/ PrepareChunks \/ FirstCall \/ RetryCall
    \/ NfaSetup \/ NfaInproc \/ NfaCli

\* ------------------------------------------------------------ _parse_ctm
\* A line is a sequence of characters.  Times are exact decimals with TimeDigits
\* digits after the point, counted in units of 10^-TimeDigits seconds; float()
\* also reads exponents, "inf", "nan" and longer fractions, which the lines below
\* do not contain.
Whitespace == {" ", "\t", "\n"}

\* str.split() with no argument: maximal runs of non-whitespace
RECURSIVE SplitAcc(_, _, _)
SplitAcc(rest, cur, acc) ==
    IF rest = <<>> THEN (IF cur = <<>> THEN acc ELSE Append(acc, cur))
    ELSE IF Head(rest) \in Whitespace
         THEN SplitAcc(Tail(rest), <<>>, IF cur = <<>> THEN acc ELSE Append(acc, cur))
         ELSE SplitAcc(Tail(rest), Append(cur, Head(rest)), acc)

\* line 634: line.strip().split()
Split(line) == SplitAcc(line, <<>>, <<>>)

Digits == <<"0", "1", "2", "3", "4", "5", "6", "7", "8", "9">>

IsDigit(c) == \E n \in 1..Len(Digits) : Digits[n] = c

DigitVal(c) == (CHOOSE n \in 1..Len(Digits) : Digits[n] = c) - 1

RECURSIVE Num(_)
Num(ds) ==
    IF ds = <<>> THEN 0
    ELSE Num(SubSeq(ds, 1, Len(ds) - 1)) * Len(Digits) + DigitVal(ds[Len(ds)])

RECURSIVE Pow10(_)
Pow10(n) == IF n = 0 THEN 1 ELSE Len(Digits) * Pow10(n - 1)

\* the fraction digits, cut or zero-filled to the resolution of the model
PadFrac(fp) == [i \in 1..TimeDigits |-> IF i <= Len(fp) THEN fp[i] ELSE "0"]

\* line 640: float(field): optional sign, digits with at most one point and at
\* least one digit; anything else raises ValueError
ParseFloat(field) ==
    LET signed == field # <<>> /\ Head(field) \in {"+", "-"}
        u == IF signed THEN Tail(field) ELSE field
        dots == { i \in 1..Len(u) : u[i] = "." }
        dot == IF dots = {} THEN Len(u) + 1 ELSE CHOOSE i \in dots : TRUE
        ip == SubSeq(u, 1, dot - 1)
        fp == SubSeq(u, dot + 1, Len(u))
        ok == /\ Cardinality(dots) <= 1
              /\ \A i \in 1..Len(u) : u[i] = "." \/ IsDigit(u[i])
              /\ Len(ip) + Len(fp) >= 1
        mag == Num(ip) * Pow10(TimeDigits) + Num(PadFrac(fp))
    IN  IF ok
        THEN [ok |-> TRUE, v |-> IF signed /\ Head(field) = "-" THEN 0 - mag ELSE mag]
        ELSE [ok |-> FALSE, v |-> 0]

\* one millisecond in time units
Milli == Pow10(TimeDigits - 3)

\* lines 644: round(x, 3): the nearest multiple of a millisecond; on an exact
\* decimal tie the result follows the binary value of the double, either side
Round3(v) ==
    LET r == v % Milli
        lo == v - r
    IN  IF 2 * r < Milli THEN {lo}
        ELSE IF 2 * r > Milli THEN {lo + Milli}
        ELSE {lo, lo + Milli}

\* line 635
TooShortFour(parts) == Len(parts) < 4

TooShort(parts) == Len(parts) < 5

ExampleLine == <<"u", "t", "t", "1", " ", "1", " ", "1", "2", ".", "3", "4", "0", " ", "0", ".", "5", "6", "0", " ", "h", "e", "l", "l", "o">>

BlankLine == <<>>

FourFields == <<"u", " ", "1", " ", "1", ".", "5", " ", "0", ".", "2">>

BadStart == <<"u", " ", "1", " ", "x", " ", "0", ".", "2", " ", "a">>

BadDur == <<"u", " ", "1", " ", "1", ".", "5", " ", ".", " ", "a">>

SpacedLine == <<" ", "u", " ", "1", " ", "0", ".", "0", "0", "0", "4", " ", " ", "2", ".", "0", "0", "1", "5", " ", "a", " ", " ", "b", " ">>

ShortNumbers == <<"u", " ", "1", " ", "3", " ", ".", "5", " ", "a">>

NegativeStart == <<"u", " ", "1", " ", "-", "0", ".", "0", "0", "2", "6", " ", "1", ".", " ", "a">>

CtmLinePool == {ExampleLine, BlankLine, FourFields, BadStart, BadDur, SpacedLine,
                ShortNumbers, NegativeStart}

CtmFiles == UNION { [1..n -> CtmLinePool] : n \in 0..MaxLines }

CtmInit ==
    /\ ctm_exists \in BOOLEAN
    /\ ctm_lines \in (IF ctm_exists THEN CtmFiles ELSE {<<>>})
    /\ ctm_pc = "open"
    /\ ctm_i = 1
    /\ toks = <<>>

\* lines 629-632: a missing file gives the empty list
CtmOpen ==
    /\ ctm_pc = "open"
    /\ ctm_pc' = IF ctm_exists THEN "loop" ELSE "done"
    /\ UNCHANGED <<ctm_exists, ctm_lines, ctm_i, toks>>
    /\ UNCHANGED notCtm

\* lines 633-644: one line of the file
CtmLine ==
    /\ ctm_pc = "loop"
    /\ ctm_i <= Len(ctm_lines)
    /\ LET parts == Split(ctm_lines[ctm_i])
       IN  IF TooShort(parts)
           THEN UNCHANGED toks
           ELSE LET t == ParseFloat(parts[3])
                    d == ParseFloat(parts[4])
                    w == Join(<<" ">>, SubSeq(parts, 5, Len(parts)))
                IN  IF ~t.ok \/ ~d.ok
                    THEN UNCHANGED toks
                    ELSE \E rt \in Round3(t.v), rd \in Round3(d.v) :
                            toks' = Append(toks, [w |-> w, t |-> rt, d |-> rd])
    /\ ctm_i' = ctm_i + 1
    /\ UNCHANGED <<ctm_exists, ctm_lines, ctm_pc>>
    /\ UNCHANGED notCtm

\* line 645
CtmReturn ==
    /\ ctm_pc = "loop"
    /\ ctm_i > Len(ctm_lines)
    /\ ctm_pc' = "done"
    /\ UNCHANGED <<ctm_exists, ctm_lines, ctm_i, toks>>
    /\ UNCHANGED notCtm

CtmNext == CtmOpen \/ CtmLine \/ CtmReturn

\* ---------------------------------------------------- concurrent requests
\* The handlers are plain functions, which the server runs on worker threads; a
\* thread takes a request, runs the handler to its end and takes the next one.
Threads == 1..MaxThreads

\* line 33
ASR_MODEL_NAME == "nvidia/parakeet-tdt-0.6b-v3"

\* lines 94-98, 114-117: /align carries no speech-to-text model and may carry a
\* beam size (0 stands for none given: None and 0 are both falsy at line 324);
\* /asr may name a model and carries no beam size
SrvRequests ==
    [endpoint : {"align"}, model : {None}, beam_size : {0, 4}] \cup
    [endpoint : {"asr"}, model : {None, ASR_MODEL_NAME, "stt_en_conformer_ctc_large"},
     beam_size : {0}]

\* line 700: the request align() is given by legacy_asr, AlignRequest(audio_path=...)
AlignRequestOf(r) ==
    [endpoint |-> "align", model |-> None,
     beam_size |-> IF r.endpoint = "align" THEN r.beam_size ELSE 0]

\* line 34: the default of ASR_BEAM_SIZE
BeamDefault == 12

\* lines 284, 336: the default of os.getenv("ASR_BEAM_SIZE", "10")
BeamGetenvDefault == 10

\* line 34
ASR_BEAM_SIZE == IF beam_env = 0 THEN BeamDefault ELSE beam_env

\* lines 284, 336: int(os.getenv("ASR_BEAM_SIZE", "10"))
BeamFromEnv == IF beam_env = 0 THEN BeamGetenvDefault ELSE beam_env

\* line 336: the width the override sets
OverrideWidth(override_beam) == BeamFromEnv

\* line 253: the name from_pretrained is given
ModelToLoad(r) == ASR_MODEL_NAME

SrvInit ==
    /\ srv_pc = [t \in Threads |-> "idle"]
    /\ srv_req = [t \in Threads |-> [endpoint |-> "align", model |-> None, beam_size |-> 0]]
    /\ singleton = None
    /\ asr = [t \in Threads |-> None]
    /\ transcribed = [t \in Threads |-> None]
    /\ beam_env \in {0, 16}
    /\ decoding = [strategy |-> None, beam_size |-> 0]
    /\ loads = 0
    /\ beam_used = [t \in Threads |-> 0]

\* a request reaches its handler
Arrive(t) ==
    /\ srv_pc[t] = "idle"
    /\ \E r \in SrvRequests :
         /\ srv_req' = [srv_req EXCEPT ![t] = r]
         /\ srv_pc' = [srv_pc EXCEPT ![t] = IF r.endpoint = "asr" THEN "legacy" ELSE "check"]
    /\ asr' = [asr EXCEPT ![t] = None]
    /\ transcribed' = [transcribed EXCEPT ![t] = None]
    /\ beam_used' = [beam_used EXCEPT ![t] = 0]
    /\ UNCHANGED <<singleton, beam_env, decoding, loads>>
    /\ UNCHANGED notSrv

\* line 700: legacy_asr calls align with a request built from the audio path
LegacyAsr(t) ==
    /\ srv_pc[t] = "legacy"
    /\ srv_pc' = [srv_pc EXCEPT ![t] = "check"]
    /\ UNCHANGED <<srv_req, singleton, asr, transcribed, beam_env, decoding, loads,
                   beam_used>>
    /\ UNCHANGED notSrv

\* lines 246-248: a loaded singleton is returned as it is
LoadCheck(t) ==
    /\ srv_pc[t] = "check"
    /\ IF singleton # None
       THEN /\ asr' = [asr EXCEPT ![t] = singleton]
            /\ srv_pc' = [srv_pc EXCEPT ![t] = "override"]
       ELSE /\ srv_pc' = [srv_pc EXCEPT ![t] = "load"]
            /\ UNCHANGED asr
    /\ UNCHANGED <<srv_req, singleton, transcribed, beam_env, decoding, loads,
                   beam_used>>
    /\ UNCHANGED notSrv

\* lines 250-313: the model is loaded, stored in the global, given beam decoding
\* and returned
LoadStore(t) ==
    /\ srv_pc[t] = "load"
    /\ loads < MaxThreads
    /\ singleton' = ModelToLoad(AlignRequestOf(srv_req[t]))
    /\ decoding' = [strategy |-> "beam", beam_size |-> BeamFromEnv]
    /\ loads' = loads + 1
    /\ asr' = [asr EXCEPT ![t] = singleton']
    /\ srv_pc' = [srv_pc EXCEPT ![t] = "override"]
    /\ UNCHANGED <<srv_req, transcribed, beam_env, beam_used>>
    /\ UNCHANGED notSrv

\* lines 323-355: the request's beam override; change_decoding_strategy may raise,
\* which is logged and leaves the configuration as it was
OverrideBeam(t) ==
    /\ srv_pc[t] = "override"
    /\ LET override_beam == AlignRequestOf(srv_req[t]).beam_size
       IN  IF override_beam # 0 /\ override_beam # ASR_BEAM_SIZE
           THEN \E raised \in BOOLEAN :
                   IF raised THEN UNCHANGED decoding
                   ELSE decoding' = [strategy |-> "batch",
                                     beam_size |-> OverrideWidth(override_beam)]
           ELSE UNCHANGED decoding
    /\ srv_pc' = [srv_pc EXCEPT ![t] = "transcribe"]
    /\ UNCHANGED <<srv_req, singleton, asr, transcribed, beam_env, loads, beam_used>>
    /\ UNCHANGED notSrv

\* lines 366-405: the chunks are transcribed by the model the thread holds
Transcribe(t) ==
    /\ srv_pc[t] = "transcribe"
    /\ transcribed' = [transcribed EXCEPT ![t] = asr[t]]
    /\ beam_used' = [beam_used EXCEPT ![t] = decoding.beam_size]
    /\ srv_pc' = [srv_pc EXCEPT ![t] = "nfa"]
    /\ UNCHANGED <<srv_req, singleton, asr, beam_env, decoding, loads>>
    /\ UNCHANGED notSrv

\* lines 675-688: alignment, then the response
RunNfa(t) ==
    /\ srv_pc[t] = "nfa"
    /\ srv_pc' = [srv_pc EXCEPT ![t] = "idle"]
    /\ UNCHANGED <<srv_req, singleton, asr, transcribed, beam_env, decoding, loads,
                   beam_used>>
    /\ UNCHANGED notSrv

SrvNext ==
    \E t \in Threads :
        \/ Arrive(t) \/ LegacyAsr(t) \/ LoadCheck(t) \/ LoadStore(t)
        \/ OverrideBeam(t) \/ Transcribe(t) \/ RunNfa(t)

\* ------------------------------------------- the aligner's configuration
\* Float settings are exact decimals counted in units of 10^-7.
\* lines 52-64: the environment
NfaEnvs ==
    [NFA_USE_STREAMING : BOOLEAN,
     NFA_CHUNK_LEN : {16000000, 12345678},            \* 1.6, 1.2345678
     NFA_TOTAL_BUFFER : {40000000},                   \* 4.0
     NFA_CHUNK_BATCH : {32},
     NFA_BATCH : {1},
     NFA_FEATURE_STRIDE : {100000},                   \* 0.01
     NFA_MODEL_DOWNSAMPLE : {8, 4},
     NFA_OUTPUT_TIMESTEP_DURATION : {800000},         \* 0.08
     NFA_TRANSCRIBE_DEVICE : {None, "cpu"},
     NFA_VITERBI_DEVICE : {None, "cuda"},
     cuda : BOOLEAN]

\* the arguments of _run_nfa_inproc / _run_nfa_cli
NfaIns ==
    [manifest_path : {"manifest.json"}, out_dir : {"out"},
     nfa_model : {"stt_en_fastconformer_ctc_large", "stt_en_conformer_ctc_large"},
     save_ass : BOOLEAN]

\* what the selected model's own configuration says: the stride of its features
\* and the downsampling of its encoder
ModelCfgs == [window_stride : {100000}, downsample : {8, 4}]

\* lines 459-470
ComputeDevice(forced, cuda_available) ==
    IF forced \in {"cuda", "cpu"} THEN forced
    ELSE IF cuda_available THEN "cuda" ELSE "cpu"

\* lines 537, 555
SaveFormats(save_ass_flag) == IF save_ass_flag THEN <<"ctm", "ass">> ELSE <<"ctm">>

RECURSIVE NumDigits(_)
NumDigits(n) == IF n < Len(Digits) THEN 1 ELSE 1 + NumDigits(n \div Len(Digits))

\* lines 558-563: f'{x:g}' writes 6 significant digits, and the aligner reads the
\* number back: the value rounded to 6 significant digits (either neighbour on an
\* exact decimal tie, which follows the binary value of the double)
FormatG(n) ==
    LET k == IF NumDigits(n) > 6 THEN Pow10(NumDigits(n) - 6) ELSE 1
        r == n % k
        lo == n - r
    IN  IF 2 * r < k THEN {lo}
        ELSE IF 2 * r > k THEN {lo + k}
        ELSE {lo, lo + k}

\* line 561: "true" / "false", read back as a boolean
FormatBool(b) == IF b THEN "true" ELSE "false"

HydraBool(str) == str = "true"

\* lines 541-543, 558-560: the three timing numbers both paths pass
TimingOf(env, model) ==
    [feature_stride |-> env.NFA_FEATURE_STRIDE,
     model_downsample_factor |-> env.NFA_MODEL_DOWNSAMPLE,
     output_timestep_duration |-> env.NFA_OUTPUT_TIMESTEP_DURATION]

\* lines 519-543: the configuration object of the in-process path
InprocCfg(in, env, model) ==
    [pretrained_name |-> in.nfa_model,
     model_path |-> None,
     manifest_filepath |-> in.manifest_path,
     output_dir |-> in.out_dir,
     align_using_pred_text |-> FALSE,
     transcribe_device |-> ComputeDevice(env.NFA_TRANSCRIBE_DEVICE, env.cuda),
     viterbi_device |-> ComputeDevice(env.NFA_VITERBI_DEVICE, env.cuda),
     batch_size |-> env.NFA_BATCH,
     use_local_attention |-> TRUE,
     audio_filepath_parts_in_utt_id |-> 1,
     use_buffered_chunked_streaming |-> env.NFA_USE_STREAMING,
     chunk_len_in_secs |-> env.NFA_CHUNK_LEN,
     total_buffer_in_secs |-> env.NFA_TOTAL_BUFFER,
     chunk_batch_size |-> env.NFA_CHUNK_BATCH,
     save_output_file_formats |-> SaveFormats(in.save_ass),
     feature_stride |-> TimingOf(env, model).feature_stride,
     model_downsample_factor |-> TimingOf(env, model).model_downsample_factor,
     output_timestep_duration |-> TimingOf(env, model).output_timestep_duration]

\* lines 554-579: what the overrides of the subprocess path say, as the aligner
\* reads them
CliCfgs(in, env, model) ==
    { [pretrained_name |-> in.nfa_model,
       manifest_filepath |-> in.manifest_path,
       output_dir |-> in.out_dir,
       transcribe_device |-> ComputeDevice(env.NFA_TRANSCRIBE_DEVICE, env.cuda),
       viterbi_device |-> ComputeDevice(env.NFA_VITERBI_DEVICE, env.cuda),
       batch_size |-> env.NFA_BATCH,
       use_local_attention |-> TRUE,
       audio_filepath_parts_in_utt_id |-> 1,
       use_buffered_chunked_streaming |-> HydraBool(FormatBool(env.NFA_USE_STREAMING)),
       chunk_len_in_secs |-> cl,
       total_buffer_in_secs |-> tb,
       chunk_batch_size |-> env.NFA_CHUNK_BATCH,
       save_output_file_formats |-> SaveFormats(in.save_ass),
       feature_stride |-> st,
       model_downsample_factor |-> TimingOf(env, model).model_downsample_factor,
       output_timestep_duration |-> ot] :
        cl \in FormatG(env.NFA_CHUNK_LEN),
        tb \in FormatG(env.NFA_TOTAL_BUFFER),
        st \in FormatG(TimingOf(env, model).feature_stride),
        ot \in FormatG(TimingOf(env, model).output_timestep_duration) }

CfgInit ==
    /\ nfa_env \in NfaEnvs
    /\ nfa_in \in NfaIns
    /\ model_cfg \in ModelCfgs
    /\ cfg_pc = "start"
    /\ inproc_cfg = None
    /\ cli_cfg = None

\* lines 519-543
BuildInproc ==
    /\ cfg_pc = "start"
    /\ inproc_cfg' = InprocCfg(nfa_in, nfa_env, model_cfg)
    /\ cfg_pc' = "inproc"
    /\ UNCHANGED <<nfa_env, nfa_in, model_cfg, cli_cfg>>
    /\ UNCHANGED notCfg

\* lines 554-579
BuildCli ==
    /\ cfg_pc = "inproc"
    /\ cli_cfg' \in CliCfgs(nfa_in, nfa_env, model_cfg)
    /\ cfg_pc' = "done"
    /\ UNCHANGED <<nfa_env, nfa_in, model_cfg, inproc_cfg>>
    /\ UNCHANGED notCfg

CfgNext == BuildInproc \/ BuildCli

\* ------------------------------------------------------ the aeneas service
\* Time is counted in whole seconds.
\* exec_aeneas.py line 204: the floor of the subprocess timeout
MinimumGuard == 60

\* main.py lines 41, 128: the timeout used when the request gives none
DefaultTimeoutSec == 600

Max2(a, b) == IF a >= b THEN a ELSE b

\* exec_aeneas.py line 204: timeout=max(60, timeout_sec)
SubprocessLimitSum(timeout_sec) == MinimumGuard + timeout_sec

SubprocessLimit(timeout_sec) == Max2(MinimumGuard, timeout_sec)

\* main.py lines 36-41: timeout_sec is optional (0 stands for none given: None and
\* 0 are both falsy at line 128)
AeRequests ==
    [lines_empty : BOOLEAN, audio_exists : BOOLEAN, timeout_sec : 0..MaxTimeoutSec]

AeInit ==
    /\ ae_req \in AeRequests
    /\ ae_pc = "align_chunk"
    /\ ae_timeout_sec = 0
    /\ ae_elapsed = 0
    /\ ae_response = NoResponse

\* main.py lines 117-129: the checks of the endpoint, then run_aeneas_alignment
\* with timeout_sec = request.timeout_sec or 600
AlignChunk ==
    /\ ae_pc = "align_chunk"
    /\ IF ae_req.lines_empty
       THEN /\ ae_response' = [status |-> 400, error |-> "lines", seconds |-> 0]
            /\ ae_pc' = "done"
            /\ UNCHANGED ae_timeout_sec
       ELSE IF ~ae_req.audio_exists
       THEN /\ ae_response' = [status |-> 404, error |-> "audio", seconds |-> 0]
            /\ ae_pc' = "done"
            /\ UNCHANGED ae_timeout_sec
       ELSE /\ ae_timeout_sec' = IF ae_req.timeout_sec # 0 THEN ae_req.timeout_sec
                                 ELSE DefaultTimeoutSec
            /\ ae_pc' = "subprocess"
            /\ UNCHANGED ae_response
    /\ UNCHANGED <<ae_req, ae_elapsed>>
    /\ UNCHANGED notAe

\* exec_aeneas.py lines 199-206: the alignment subprocess runs one more second
SubprocessRuns ==
    /\ ae_pc = "subprocess"
    /\ ae_elapsed < SubprocessLimit(ae_timeout_sec)
    /\ ae_elapsed' = ae_elapsed + 1
    /\ UNCHANGED <<ae_req, ae_pc, ae_timeout_sec, ae_response>>
    /\ UNCHANGED notAe

\* exec_aeneas.py lines 208-249, main.py lines 131-158: the subprocess ends by
\* itself: fragments are returned, or the exit code or a missing output file makes
\* a RuntimeError, reported as 500
SubprocessExits ==
    /\ ae_pc = "subprocess"
    /\ \E good \in BOOLEAN :
         ae_response' = IF good THEN [status |-> 200, error |-> None, seconds |-> 0]
                        ELSE [status |-> 500, error |-> "failed", seconds |-> 0]
    /\ ae_pc' = "done"
    /\ UNCHANGED <<ae_req, ae_timeout_sec, ae_elapsed>>
    /\ UNCHANGED notAe

\* exec_aeneas.py lines 252-253, main.py lines 152-154: the limit is reached, the
\* subprocess is killed and the RuntimeError names timeout_sec
SubprocessTimesOut ==
    /\ ae_pc = "subprocess"
    /\ ae_elapsed = SubprocessLimit(ae_timeout_sec)
    /\ ae_response' = [status |-> 500, error |-> "timed out", seconds |-> ae_timeout_sec]
    /\ ae_pc' = "done"
    /\ UNCHANGED <<ae_req, ae_timeout_sec, ae_elapsed>>
    /\ UNCHANGED notAe

AeNext == AlignChunk \/ SubprocessRuns \/ SubprocessExits \/ SubprocessTimesOut

\* ------------------------------------------------------- specifications
SegIdle ==
    /\ total_samples = 0 /\ min_chunk_sec = 0 /\ max_chunk_sec = 0
    /\ split_raises = FALSE /\ non_silent = <<>>
    /\ seg_pc = "idle" /\ split_called = FALSE /\ silence_idx = {}
    /\ segments = <<>> /\ cur_start = 0 /\ cur_start_sec = 0 /\ s = 0 /\ out = <<>>

JobIdle ==
    /\ req = [audio_path |-> [kind |-> "audio", abs |-> TRUE, id |-> 0],
              nfa_model |-> None, save_ass |-> FALSE]
    /\ ASR_PRECHUNK = TRUE /\ cuda = FALSE /\ fs = {}
    /\ NFA_MODEL_NAME = "stt_en_fastconformer_ctc_large" /\ nfa_available = {}
    /\ asr_model = [loaded |-> FALSE, device |-> None]
    /\ job_pc = "idle" /\ chunks = <<>> /\ idx = 0 /\ texts = <<>>
    /\ transcript = <<>> /\ manifest = <<>> /\ nfa_model = None
    /\ response = NoResponse /\ calls = <<>> /\ hyp_of = <<>> /\ released = {}
    /\ nfa_calls = <<>> /\ steps = <<>>

CtmIdle ==
    /\ ctm_exists = FALSE /\ ctm_lines = <<>> /\ ctm_pc = "idle" /\ ctm_i = 0
    /\ toks = <<>>

SrvIdle ==
    /\ srv_pc = <<>> /\ srv_req = <<>> /\ singleton = None /\ asr = <<>>
    /\ transcribed = <<>> /\ beam_env = 0 /\ decoding = None /\ loads = 0
    /\ beam_used = <<>>

CfgIdle ==
    /\ nfa_env = None /\ nfa_in = None /\ model_cfg = None /\ cfg_pc = "idle"
    /\ inproc_cfg = None /\ cli_cfg = None

AeIdle ==
    /\ ae_req = None /\ ae_pc = "idle" /\ ae_timeout_sec = 0 /\ ae_elapsed = 0
    /\ ae_response = NoResponse

Init == JobInit /\ SegIdle /\ CtmIdle /\ SrvIdle /\ CfgIdle /\ AeIdle

Spec == Init /\ [][Next]_vars

SegStart == SegInit /\ JobIdle /\ CtmIdle /\ SrvIdle /\ CfgIdle /\ AeIdle

CtmStart == CtmInit /\ SegIdle /\ JobIdle /\ SrvIdle /\ CfgIdle /\ AeIdle

SrvStart == SrvInit /\ SegIdle /\ JobIdle /\ CtmIdle /\ CfgIdle /\ AeIdle

CfgStart == CfgInit /\ SegIdle /\ JobIdle /\ CtmIdle /\ SrvIdle /\ AeIdle

AeStart == AeInit /\ SegIdle /\ JobIdle /\ CtmIdle /\ SrvIdle /\ CfgIdle

AeSpec == AeStart /\ [][AeNext]_vars

CfgSpec == CfgStart /\ [][CfgNext]_vars

SrvSpec == SrvStart /\ [][SrvNext]_vars

CtmSpec == CtmStart /\ [][CtmNext]_vars

SegSpec == SegStart /\ [][SegNext]_vars

\* ------------------------------------------------------------------ claims
\* length of a returned chunk in ticks: end_sec - start_sec
ChunkLen(c) == SecOf(c.end) - SecOf(c.start)

\* min_chunk_sec * sr and max_chunk_sec * sr are whole numbers of samples
SampleAligned ==
    min_chunk_sec % TicksPerSample = 0 /\ max_chunk_sec % TicksPerSample = 0

\* C1: for non-empty audio the returned chunks are contiguous: the first starts at 0,
\* each starts where the previous one ends, the last ends at the total duration,
\* whether silence detection succeeded or raised.
SegmenterCoverage ==
    (seg_pc = "done" /\ total_samples > 0) =>
        /\ Len(out) >= 1
        /\ out[1].start = 0
        /\ out[Len(out)].end = total_samples
        /\ \A i \in 1..(Len(out) - 1) : out[i + 1].start = out[i].end
        /\ \A i \in 1..Len(out) : out[i].start <= out[i].end

SegmenterCoverageWitness ==
    /\ seg_pc = "done"
    /\ Len(out) >= 3
    /\ \E i \in 1..(Len(out) - 1) : out[i].end \in silence_idx \ {0, total_samples}

\* C2 (as claimed): every returned chunk except the last has a length in
\* [min_chunk_sec, max_chunk_sec].
SegmenterBoundsExact ==
    seg_pc = "done" =>
        \A i \in 1..(Len(out) - 1) :
            min_chunk_sec <= ChunkLen(out[i]) /\ ChunkLen(out[i]) <= max_chunk_sec

\* C2 (amended): every returned chunk except the last has a length within less than
\* one sample period of [min_chunk_sec, max_chunk_sec], and inside that interval when
\* both bounds are whole numbers of samples.
SegmenterBounds ==
    seg_pc = "done" =>
        \A i \in 1..(Len(out) - 1) :
            /\ min_chunk_sec - TicksPerSample < ChunkLen(out[i])
            /\ ChunkLen(out[i]) < max_chunk_sec + TicksPerSample
            /\ SampleAligned =>
                   (min_chunk_sec <= ChunkLen(out[i]) /\ ChunkLen(out[i]) <= max_chunk_sec)

SegmenterBoundsWitness ==
    /\ seg_pc = "done"
    /\ ~split_raises
    /\ Len(out) >= 3
    /\ ChunkLen(out[1]) > max_chunk_sec

\* C3 (as claimed): whenever the duration is at most max_chunk_sec, zero included, one
\* chunk [0, duration) is returned and silence detection is not run.
SingleChunkAny ==
    (seg_pc = "done" /\ duration_sec <= max_chunk_sec) =>
        /\ out = <<[start |-> 0, end |-> total_samples]>>
        /\ ~split_called

\* C3 (amended): for non-empty audio of duration at most max_chunk_sec one chunk
\* [0, duration) is returned and silence detection is not run; for empty audio no
\* chunk is returned.
SingleChunk ==
    (seg_pc = "done" /\ duration_sec <= max_chunk_sec) =>
        /\ ~split_called
        /\ IF total_samples = 0 THEN out = <<>>
           ELSE out = <<[start |-> 0, end |-> total_samples]>>

SingleChunkWitness ==
    /\ seg_pc = "done"
    /\ total_samples > 0
    /\ duration_sec = max_chunk_sec
    /\ Len(out) = 1

\* C4: after a first call on a chunk (batch ASR_BATCH) that ran out of memory, the
\* next model call is the retry of the same chunk at ASR_FALLBACK_BATCH on the same
\* device, the model stays on that device until then, and a chunk is retried once.
OomFirstRetry ==
    /\ \A i \in 1..Len(calls) :
         (calls[i].attempt = 1 /\ calls[i].result = "oom") =>
            /\ calls[i].batch_size = ASR_BATCH
            /\ IF i = Len(calls)
               THEN job_pc = "retry" /\ asr_model.device = calls[i].device
               ELSE /\ calls[i + 1].chunk = calls[i].chunk
                    /\ calls[i + 1].attempt = 2
                    /\ calls[i + 1].batch_size = ASR_FALLBACK_BATCH
                    /\ calls[i + 1].device = calls[i].device
    /\ \A i, j \in 1..Len(calls) :
         (calls[i].attempt = 2 /\ calls[j].attempt = 2 /\ calls[i].chunk = calls[j].chunk)
            => i = j

OomFirstRetryWitness ==
    /\ job_pc = "done"
    /\ response.status = 200
    /\ \E i \in 1..Len(calls) : calls[i].attempt = 2 /\ calls[i].result = "ok"

\* C5: after the retry at the fallback batch size also ran out of memory, the job has
\* not failed unless a third attempt on the same chunk, at batch size 1 on the CPU,
\* was made.
OomSecondEscalates ==
    \A i \in 1..Len(calls) :
        (calls[i].attempt = 2 /\ calls[i].result = "oom") =>
            \/ job_pc # "done"
            \/ /\ i < Len(calls)
               /\ calls[i + 1].chunk = calls[i].chunk
               /\ calls[i + 1].attempt = 3
               /\ calls[i + 1].batch_size = 1
               /\ calls[i + 1].device = "cpu"

\* the chunks the transcription stage has started to process
Started == { calls[i].chunk : i \in 1..Len(calls) }

\* C6: once the next chunk is started or the job has ended, every started chunk has
\* had its temporary file deleted and the transient memory released, whether its
\* transcription succeeded or failed; no temporary chunk file outlives the job.
ChunkCleanup ==
    /\ \A c \in Started :
         (job_pc = "done" \/ idx > c) =>
            /\ c \in released
            /\ (IsTmp(chunks[c].path) => chunks[c].path \notin fs)
    /\ job_pc = "done" => \A p \in fs : ~IsTmp(p)

\* the calls that returned a hypothesis
IsOk(c) == c.result = "ok"

\* C7: each chunk contributes its text at most once and in chunk order, whatever
\* calls were retried: the i-th text is the text returned by the one successful call
\* on chunk i, and the transcript is stitched from the texts in that order.
TranscriptOrder ==
    LET ok == SelectSeq(calls, IsOk)
    IN  /\ Len(texts) = Len(ok)
        /\ Len(texts) = Len(hyp_of)
        /\ \A i \in 1..Len(texts) :
             ok[i].chunk = i /\ texts[i] = TextOf(hyp_of[i])
        /\ (job_pc = "done" /\ response.status = 200) =>
             /\ Len(texts) = Len(chunks)
             /\ transcript = Stitch([i \in 1..Len(hyp_of) |-> TextOf(hyp_of[i])])

TranscriptOrderWitness ==
    /\ job_pc = "done"
    /\ response.status = 200
    /\ Len(texts) >= 2
    /\ texts[1] # texts[2]
    /\ \E i \in 1..Len(texts) : texts[i] = <<>>
    /\ \E i \in 1..Len(calls) : calls[i].result = "oom"

\* the transcription stage has returned
TranscriptReturned ==
    job_pc \in {"nfa", "inproc", "cli"} \/ (job_pc = "done" /\ nfa_calls # <<>>)

EndsTerminal(t) == t # <<>> /\ t[Len(t)] \in Terminal

\* C8 (as claimed): the returned transcript is the non-empty chunk texts joined with
\* ". " (closed with "." when needed) and always ends in terminal punctuation.
TranscriptAlwaysTerminated ==
    TranscriptReturned =>
        LET joined == Join(<<".", " ">>, SelectSeq(texts, IsNonEmpty))
        IN  /\ transcript \in {joined, joined \o <<".">>}
            /\ EndsTerminal(transcript)

\* C8 (amended): when some chunk text is non-empty the transcript is the non-empty
\* texts joined with ". ", followed by "." exactly when the join does not already end
\* in '.', '!' or '?', so it ends in terminal punctuation; when every chunk text is
\* empty or there is no chunk the transcript is empty.
TranscriptStitching ==
    TranscriptReturned =>
        LET joined == Join(<<".", " ">>, SelectSeq(texts, IsNonEmpty))
        IN  IF joined = <<>> THEN transcript = <<>>
            ELSE /\ EndsTerminal(transcript)
                 /\ transcript = IF EndsTerminal(joined) THEN joined
                                  ELSE joined \o <<".">>

TranscriptStitchingWitness ==
    /\ TranscriptReturned
    /\ Len(texts) >= 2
    /\ Len(SelectSeq(texts, IsNonEmpty)) >= 2
    /\ ~EndsTerminal(texts[Len(texts)])

\* the alignment stage has been entered
AlignmentInvoked == job_pc \in {"inproc", "cli"} \/ nfa_calls # <<>>

\* C9: the alignment stage is given a manifest of exactly one entry, whose audio path
\* is the absolute path of the original recording, never a temporary chunk file, and
\* whose text is the transcript stitched from all the chunks.
FullAudioManifest ==
    AlignmentInvoked =>
        /\ Len(manifest) = 1
        /\ manifest[1].audio_filepath = [kind |-> "audio", abs |-> TRUE, id |-> 0]
        /\ \A i \in 1..Len(chunks) :
             IsTmp(chunks[i].path) => manifest[1].audio_filepath # chunks[i].path
        /\ Len(texts) = Len(chunks)
        /\ manifest[1].text = Stitch(texts)

FullAudioManifestWitness ==
    /\ nfa_calls # <<>>
    /\ ASR_PRECHUNK
    /\ Len(chunks) >= 2
    /\ ~req.audio_path.abs
    /\ transcript # <<>>

\* C10: when the in-process call raises, the out-of-process call comes next with the
\* same manifest path, output directory, model name and format flag; the job
\* succeeds when that call succeeds, and an alignment failure means both calls failed.
InvocationFallback ==
    /\ \A i \in 1..Len(nfa_calls) :
         (nfa_calls[i].via = "inproc" /\ nfa_calls[i].result # "ok") =>
            IF i = Len(nfa_calls) THEN job_pc = "cli"
            ELSE /\ nfa_calls[i + 1].via = "cli"
                 /\ nfa_calls[i + 1].args = nfa_calls[i].args
    /\ (job_pc = "done" /\ nfa_calls # <<>>) =>
         IF nfa_calls[Len(nfa_calls)].result = "ok"
         THEN response.status = 200
         ELSE /\ response.status = 500
              /\ Len(nfa_calls) = 2
              /\ nfa_calls[1].via = "inproc" /\ nfa_calls[1].result # "ok"
              /\ nfa_calls[2].via = "cli" /\ nfa_calls[2].result # "ok"

InvocationFallbackWitness ==
    /\ job_pc = "done"
    /\ response.status = 200
    /\ Len(nfa_calls) = 2
    /\ nfa_calls[1].result = "RuntimeError"
    /\ nfa_calls[2].result = "ok"

\* C11: the in-process path is the first alignment call of a job and is made once;
\* the subprocess path is called only after an in-process call that raised, and at
\* most once; when the in-process call returns the subprocess is never started.
FallbackConditional ==
    /\ Len(nfa_calls) <= 2
    /\ nfa_calls # <<>> => nfa_calls[1].via = "inproc"
    /\ \A i \in 1..Len(nfa_calls) :
         nfa_calls[i].via = "cli" =>
            /\ i = 2
            /\ nfa_calls[1].via = "inproc"
            /\ nfa_calls[1].result # "ok"
    /\ job_pc = "cli" => (Len(nfa_calls) = 1 /\ nfa_calls[1].result # "ok")
    /\ (job_pc = "done" /\ response.status = 200) =>
         /\ nfa_calls # <<>>
         /\ nfa_calls[1].result = "ok" => Len(nfa_calls) = 1

FallbackConditionalWitness ==
    /\ job_pc = "done"
    /\ response.status = 200
    /\ Len(nfa_calls) = 1
    /\ nfa_calls[1].via = "inproc"
    /\ nfa_calls[1].result = "ok"

\* the model name both alignment calls were given
PassedModels == { nfa_calls[i].args.nfa_model : i \in 1..Len(nfa_calls) }

\* C14 (as claimed): the model chosen for a job is the request-supplied name whenever
\* the request supplies one, else the configured default, else the first fallback.
AlignerPreferenceAsIs ==
    AlignmentInvoked =>
        nfa_model = IF req.nfa_model \notin {None, ""} THEN req.nfa_model
                    ELSE IF NFA_MODEL_NAME # "" THEN NFA_MODEL_NAME
                    ELSE NFA_MODEL_FALLBACKS[1]

\* C14 (amended): the model chosen for a job is the first name containing "ctc" in the
\* order request-supplied name, configured default, fallback list: the request's
\* name when it is supplied and contains "ctc", else the default when that contains
\* "ctc", else the first fallback.
AlignerPreference ==
    AlignmentInvoked =>
        nfa_model = IF req.nfa_model \in CtcNames THEN req.nfa_model
                    ELSE IF NFA_MODEL_NAME \in CtcNames THEN NFA_MODEL_NAME
                    ELSE NFA_MODEL_FALLBACKS[1]

AlignerPreferenceWitness ==
    /\ nfa_calls # <<>>
    /\ req.nfa_model = "parakeet_tdt"
    /\ NFA_MODEL_NAME = "nvidia/parakeet-tdt-0.6b-v3"
    /\ nfa_model = "stt_en_conformer_ctc_large"

\* C15: whatever the request-supplied name and the configured default, the model name
\* handed to the alignment stage is a CTC one (its name contains "ctc"); a name
\* without "ctc" is never passed to the aligner.
CtcOnly ==
    /\ PassedModels \subseteq CtcNames
    /\ AlignmentInvoked => nfa_model \in CtcNames

CtcOnlyWitness ==
    /\ nfa_calls # <<>>
    /\ req.nfa_model = "parakeet_tdt"
    /\ NFA_MODEL_NAME = ""
    /\ PassedModels = {"stt_en_conformer_ctc_large"}

\* C16: when the chosen alignment model cannot be obtained, the job fails only after
\* every model of the fallback list has been tried, in order.
ModelFallback ==
    (job_pc = "done" /\ nfa_calls # <<>> /\ nfa_model \notin nfa_available) =>
        /\ \A k \in 1..Len(NFA_MODEL_FALLBACKS) :
             NFA_MODEL_FALLBACKS[k] # nfa_model =>
                \E i \in 1..Len(nfa_calls) :
                    nfa_calls[i].args.nfa_model = NFA_MODEL_FALLBACKS[k]
        /\ \A i, j \in 1..Len(nfa_calls) :
             \A k, l \in 1..Len(NFA_MODEL_FALLBACKS) :
                (/\ nfa_calls[i].args.nfa_model = NFA_MODEL_FALLBACKS[k]
                 /\ nfa_calls[j].args.nfa_model = NFA_MODEL_FALLBACKS[l]
                 /\ k < l) => i < j

\* C19: when transcription yields an empty transcript, the job ends at once with an
\* input error (HTTP 4xx) and the alignment stage is never invoked.
EmptyTranscriptRejected ==
    (TranscriptReturned /\ transcript = <<>>) =>
        /\ ~AlignmentInvoked
        /\ manifest = <<>>
        /\ job_pc = "done" => response.status \in 400..499

\* C18: every external invocation of a job (each model call, the in-process
\* alignment call, the alignment subprocess) is made with a time bound.
Timeouts ==
    /\ \A i \in 1..Len(calls) : calls[i].timeout # None
    /\ \A i \in 1..Len(nfa_calls) : nfa_calls[i].timeout # None

\* C20: a request whose audio does not exist ends with 404 and nothing else has
\* happened: no authentication, no model load, no chunking, no model call, no
\* alignment, and the singleton is as it was.
MissingInputFirst ==
    AbsolutePath(req.audio_path) \notin fs =>
        /\ job_pc \in {"align", "done"}
        /\ job_pc = "done" => response = [status |-> 404]
        /\ steps = <<>>
        /\ asr_model = [loaded |-> FALSE, device |-> None]
        /\ chunks = <<>> /\ calls = <<>> /\ nfa_calls = <<>> /\ manifest = <<>>
        /\ fs = {}

MissingInputFirstWitness ==
    AbsolutePath(req.audio_path) \notin fs /\ job_pc = "done" /\ response = [status |-> 404]

\* the lines of the file that have at least 5 fields and numeric start and duration
WellFormed ==
    { i \in 1..Len(ctm_lines) :
        /\ Len(Split(ctm_lines[i])) >= 5
        /\ ParseFloat(Split(ctm_lines[i])[3]).ok
        /\ ParseFloat(Split(ctm_lines[i])[4]).ok }

\* the line the k-th token must come from: the k-th well-formed line
SourceLine(k) ==
    CHOOSE i \in WellFormed : Cardinality({ j \in WellFormed : j <= i }) = k

Nearest(r, v) == r % Milli = 0 /\ 2 * AbsVal(r - v) <= Milli

\* C17: the parser returns one token per well-formed line, in file order, the text
\* being fields 5.. joined by one space and start and duration rounded to the
\* millisecond; other lines are skipped and a missing file gives no token.
CtmParser ==
    ctm_pc = "done" =>
        /\ ~ctm_exists => toks = <<>>
        /\ Len(toks) = Cardinality(WellFormed)
        /\ \A k \in 1..Len(toks) :
             LET f == Split(ctm_lines[SourceLine(k)])
             IN  /\ toks[k].w = Join(<<" ">>, SubSeq(f, 5, Len(f)))
                 /\ Nearest(toks[k].t, ParseFloat(f[3]).v)
                 /\ Nearest(toks[k].d, ParseFloat(f[4]).v)
                 /\ ctm_lines[SourceLine(k)] = ExampleLine =>
                        toks[k] = [w |-> <<"h", "e", "l", "l", "o">>,
                                   t |-> 1234 * 10 * Milli, d |-> 56 * 10 * Milli]

CtmParserWitness ==
    /\ ctm_pc = "done" /\ ctm_exists
    /\ 0 < Len(toks) /\ Len(toks) < Len(ctm_lines)
    /\ \E i \in 1..Len(ctm_lines) : ctm_lines[i] = ExampleLine

\* a thread is executing a job from the first step of align's body to its response
Executing(t) == srv_pc[t] \in {"check", "load", "override", "transcribe", "nfa"}

\* C12: at no time are two transcription/alignment jobs executing concurrently.
AdmissionGate == Cardinality({ t \in Threads : Executing(t) }) <= 1

\* C13: the model that transcribes a request which names a speech-to-text model is
\* the model that request names.
ModelSwap ==
    \A t \in Threads :
        (transcribed[t] # None /\ srv_req[t].model # None) =>
            transcribed[t] = srv_req[t].model

\* C21: a success response is returned only if every chunk was transcribed, one of
\* the two alignment calls returned without error, and that call produced the
\* word-level timing table.
NoFalseSuccess ==
    (job_pc = "done" /\ response.status = 200) =>
        /\ \A c \in 1..Len(chunks) : \E i \in 1..Len(calls) :
              calls[i].chunk = c /\ calls[i].result = "ok"
        /\ nfa_calls # <<>>
        /\ nfa_calls[Len(nfa_calls)].result = "ok"
        /\ nfa_calls[Len(nfa_calls)].wrote_ctm
        /\ response.words # <<>>

\* C28: the nfa_model of a success response is the model that was selected and
\* passed to the alignment calls of the job.
ReportedAligner ==
    (job_pc = "done" /\ response.status = 200) =>
        /\ response.nfa_model = nfa_model
        /\ \A i \in 1..Len(nfa_calls) : response.nfa_model = nfa_calls[i].args.nfa_model

\* C27: every file a step of the job removes is a temporary chunk file, and the
\* caller's audio, once there, is there after every step.
SourceAudioKept ==
    [][/\ \A p \in fs \ fs' : IsTmp(p)
       /\ AbsolutePath(req.audio_path) \in fs => AbsolutePath(req.audio_path) \in fs']_vars

SourceAudioKeptWitness ==
    /\ job_pc = "done" /\ ~ASR_PRECHUNK /\ released # {}
    /\ AbsolutePath(req.audio_path) \in fs

\* a segmentation loop has reached the iteration count no terminating run reaches
Endless ==
    \/ seg_pc = "fixed" /\ s < total_samples /\ Len(out) > total_samples
    \/ seg_pc = "walk" /\ cur_start < total_samples /\ Len(segments) > 2 * total_samples + 1

\* C24: for non-empty audio and a positive maxChunkSec, every iteration moves the
\* chunk start strictly forward: no chunk is empty and the loops end.
SegmenterProgress ==
    (total_samples > 0 /\ max_chunk_sec > 0) =>
        /\ \A i \in 1..Len(segments) : segments[i][1] < segments[i][2]
        /\ \A i \in 1..Len(out) : out[i].start < out[i].end
        /\ ~Endless

\* a step of the silence-aware walk that cuts while more than max_chunk_sec remains
CutStep ==
    /\ seg_pc = "walk" /\ cur_start < total_samples
    /\ duration_sec - cur_start_sec > max_chunk_sec
    /\ Len(segments') = Len(segments) + 1

\* the silence points inside [cur_start_sec + min, min(duration, cur_start_sec + max)]
WindowPts ==
    { p \in silence_idx :
        /\ cur_start_sec + min_chunk_sec <= SecOf(p)
        /\ SecOf(p) <= Min2(duration_sec, cur_start_sec + max_chunk_sec) }

\* distance of a sample from the target cur_start_sec + (min + max) / 2, doubled
FromTarget(p) == AbsVal(2 * SecOf(p) - (2 * cur_start_sec + min_chunk_sec + max_chunk_sec))

\* the earliest of the window's silence points closest to the target
BestPt ==
    CHOOSE p \in WindowPts :
        \A q \in WindowPts : FromTarget(p) < FromTarget(q) \/ (FromTarget(p) = FromTarget(q) /\ p <= q)

\* C23 as stated: the cut is the closest silence point of the window, and
\* cur_start_sec + max_chunk_sec when the window holds none.
CutSelectionAsIs ==
    [][CutStep =>
         IF WindowPts # {} THEN cur_start' = BestPt
         ELSE SecOf(cur_start') = cur_start_sec + max_chunk_sec]_vars

\* a sample nearest to the instant x (in ticks)
NearestSample(n, x) == 2 * AbsVal(SecOf(n) - x) <= TicksPerSample

\* C23: the cut is the closest silence point of the window when that lies after the
\* current start sample, the sample nearest to cur_start_sec + max_chunk_sec when
\* the window holds none, and cur_start + int(max_chunk_sec * sr), capped at the
\* end, when the cut so computed does not pass the current start; the 185-second
\* recording is cut at 82 and 172.
CutSelection ==
    /\ [][CutStep =>
            LET forced == Min2(total_samples, cur_start + (max_chunk_sec \div TicksPerSample))
                max_end == cur_start_sec + max_chunk_sec
            IN  IF WindowPts # {}
                THEN cur_start' = IF BestPt > cur_start THEN BestPt ELSE forced
                ELSE \/ cur_start' > cur_start /\ NearestSample(cur_start', max_end)
                     \/ /\ cur_start' = forced
                        /\ \E n \in 0..cur_start : NearestSample(n, max_end)]_vars
    /\ [](LongRecording /\ seg_pc = "done" =>
            out = <<WriteSegment(0, 82), WriteSegment(82, 172), WriteSegment(172, 185)>>)

CutSelectionWitness ==
    /\ LongRecording /\ seg_pc = "done"
    /\ Len(out) = 3 /\ out[1].end \in silence_idx /\ out[2].end \notin silence_idx

\* the timing numbers the selected model's own configuration gives
TimingOfModel(env, model) ==
    [feature_stride |-> model.window_stride,
     model_downsample_factor |-> model.downsample,
     output_timestep_duration |-> model.window_stride * model.downsample]

\* C22: the feature stride, downsampling factor and output timestep duration passed
\* to the aligner are those of the selected model's configuration.
TimingFollowsModel ==
    /\ cfg_pc \in {"inproc", "done"} =>
         \A f \in DOMAIN TimingOfModel(nfa_env, model_cfg) :
            inproc_cfg[f] = TimingOfModel(nfa_env, model_cfg)[f]
    /\ cfg_pc = "done" =>
         \A f \in DOMAIN TimingOfModel(nfa_env, model_cfg) :
            cli_cfg[f] = TimingOfModel(nfa_env, model_cfg)[f]

\* the settings both invocation paths are to agree on
SharedSettings ==
    {"pretrained_name", "manifest_filepath", "output_dir", "transcribe_device",
     "viterbi_device", "use_buffered_chunked_streaming", "chunk_len_in_secs",
     "total_buffer_in_secs", "chunk_batch_size", "batch_size",
     "save_output_file_formats", "feature_stride", "model_downsample_factor",
     "output_timestep_duration"}

\* C25: the configuration of the in-process path and the overrides of the
\* subprocess path give the same value to every shared setting.
EquivalentConfiguration ==
    cfg_pc = "done" => \A f \in SharedSettings : inproc_cfg[f] = cli_cfg[f]

\* C26: the shared model is loaded at most once, and no request transcribes with it
\* while another request is loading it or changing its decoding configuration.
SingletonRaceFree ==
    /\ loads <= 1
    /\ \A t, u \in Threads :
          ~(t # u /\ srv_pc[t] = "transcribe" /\ srv_pc[u] \in {"load", "override"})

\* C29: the beam width in effect while a request is transcribed is the request's
\* override when it gives one and the configured default ASR_BEAM_SIZE otherwise.
BeamPerRequest ==
    \A t \in Threads :
        beam_used[t] # 0 =>
            beam_used[t] = IF AlignRequestOf(srv_req[t]).beam_size # 0
                           THEN AlignRequestOf(srv_req[t]).beam_size
                           ELSE ASR_BEAM_SIZE

====
